---- MODULE Spec2Model ----
(***************************************************************************)
(* A model of src/app.py: the VISION assistant.                            *)
(*                                                                         *)
(*   - call_gemini_api: the bounded retry loop around one outbound POST,   *)
(*     one step of the model per loop iteration (the provider's answer to  *)
(*     the attempt is the step's input);                                   *)
(*   - format_citations_list / format_citations_cli: the two citation      *)
(*     renderings, as operators computed the way the loops compute them;   *)
(*   - api_ask: the POST /api/ask handler around them.                     *)
(*                                                                         *)
(* Python strings are modelled as sequences of tokens (TLA+ strings), so   *)
(* that the empty string is << >> and an f-string is the sequence of its   *)
(* literal pieces and interpolated values.  A query is a sequence of       *)
(* one-character tokens, so that str.strip() has something to do.          *)
(***************************************************************************)
EXTENDS Integers, Sequences, FiniteSets, TLC

VARIABLES
    requests_version,   \* the installed requests library: decides the class of response.json()'s error
    max_retries,        \* the value the module's MAX_RETRIES is configured to
    pc,                 \* where the process is: "idle" | "attempt" | "returned" | "raised" | "responded"
                        \* (web), "prompt" | "attempt" | "returned" | "raised" | "done" | "crashed" (CLI)
    request,            \* the HTTP request being handled by api_ask
    user_query,         \* the user_query call_gemini_api is called with
    payload,            \* call_gemini_api's payload
    attempt,            \* call_gemini_api's loop variable
    net_calls,          \* number of requests.post calls made for this request
    sleeps,             \* the time.sleep calls of this request, in order: [after |-> attempt, duration |-> seconds]
    history,            \* the kind of provider outcome of each attempt of this request, in order
    last_body,          \* the JSON body of the latest attempt's answer (NoBody when it had none)
    result,             \* what call_gemini_api returned: [text, sources]
    http,               \* what api_ask returned: [status, keys, query, response, citations, error]
    cli_input,          \* main_assistant_loop: what the latest input() gave: [kind, text]
    printed,            \* main_assistant_loop: what it printed for the latest line: [text, citations]
    fmt_pc,             \* formatter harness: which renderings have been applied
    fmt_sources,        \* formatter harness: the raw source list
    fmt_list,           \* formatter harness: format_citations_list(fmt_sources)
    fmt_cli             \* formatter harness: format_citations_cli(fmt_sources)

web_vars == <<requests_version, max_retries, pc, request, user_query, payload, attempt,
              net_calls, sleeps, history, last_body, result, http>>
cli_vars == <<cli_input, printed>>
fmt_vars == <<fmt_pc, fmt_sources, fmt_list, fmt_cli>>
vars == <<requests_version, max_retries, pc, request, user_query, payload, attempt,
          net_calls, sleeps, history, last_body, result, http, cli_input, printed,
          fmt_pc, fmt_sources, fmt_list, fmt_cli>>

-----------------------------------------------------------------------------
(* Configuration of src/app.py *)

MAX_RETRIES == 3

INITIAL_DELAY_SECONDS == 1

-----------------------------------------------------------------------------
(* Bounds of the model *)

\* longest raw source list given to the formatters
MaxSources == 3

\* longest groundingAttributions list in a provider answer
MaxAttributions == 1

\* longest query string in a request, in characters
MaxQueryLen == 2

\* the largest value MAX_RETRIES is configured to, where the claim is about
\* every value of it
MaxRetries == 3

-----------------------------------------------------------------------------
(* JSON values *)

\* dict.get(key) on a dict without the key: Python's None
Absent == "<absent>"

Uris == {Absent, "", "https://a.com", "https://b.com"}

Titles == {Absent, "Title 1", "Title 2"}

\* One element of groundingAttributions.  obj: it is a JSON object (else null);
\* web: its 'web' member is absent, null or an object; uri, title: the members
\* of that object.
Attributions ==
    {[obj |-> FALSE, web |-> "absent", uri |-> Absent, title |-> Absent]}
    \cup {[obj |-> TRUE, web |-> w, uri |-> Absent, title |-> Absent] : w \in {"absent", "null"}}
    \cup {[obj |-> TRUE, web |-> "object", uri |-> u, title |-> t] : u \in Uris, t \in Titles}

SeqsUpTo(S, n) == UNION {[1..k -> S] : k \in 0..n}

\* Python truthiness of a value returned by web_info.get('uri'): None and ''
\* are falsy.
Truthy(uri) == uri # Absent /\ uri # ""

-----------------------------------------------------------------------------
(* format_citations_list *)

\* attribution.get('web', {}) needs a dict; web_info.get needs a dict
AttributionRaises(attribution) ==
    \/ ~attribution.obj
    \/ attribution.web = "null"

\* web_info.get('uri')
UriOf(attribution) ==
    IF attribution.web = "object" THEN attribution.uri ELSE Absent

\* web_info.get('title'), mutated: no default
TitleOfMutantNoDefault(attribution) ==
    IF attribution.web = "object" THEN attribution.title ELSE Absent

\* web_info.get('title', 'Untitled Source')
TitleOf(attribution) ==
    IF attribution.web = "object" /\ attribution.title # Absent
    THEN attribution.title
    ELSE "Untitled Source"

\* the test that guards the append
EmitsMutantNoSeenCheck(uri, seen_uris) == Truthy(uri)

EmitsMutantNoneCheck(uri, seen_uris) == uri # Absent /\ uri \notin seen_uris

Emits(uri, seen_uris) == Truthy(uri) /\ uri \notin seen_uris

\* one iteration of the for loop; st = [raised, citations, seen_uris]
ListStep(st, attribution) ==
    IF st.raised THEN st
    ELSE IF AttributionRaises(attribution)
    THEN [raised |-> TRUE, citations |-> << >>, seen_uris |-> {}]
    ELSE IF Emits(UriOf(attribution), st.seen_uris)
    THEN [raised |-> FALSE,
          citations |-> Append(st.citations,
                               [title |-> TitleOf(attribution), uri |-> UriOf(attribution)]),
          seen_uris |-> st.seen_uris \cup {UriOf(attribution)}]
    ELSE st

RECURSIVE ListLoop(_, _, _)
ListLoop(sources, i, st) ==
    IF i > Len(sources) THEN st
    ELSE ListLoop(sources, i + 1, ListStep(st, sources[i]))

\* [raised |-> an AttributeError left the function, citations |-> the returned list]
format_citations_list(sources) ==
    LET st == ListLoop(sources, 1, [raised |-> FALSE, citations |-> << >>, seen_uris |-> {}])
    IN  [raised |-> st.raised, citations |-> st.citations]

-----------------------------------------------------------------------------
(* format_citations_cli (nested in main_assistant_loop) *)

Header == "\n---\n**SOURCE LOG:**"

Footer == "\n---\n"

\* f"{source_index}. [{title}]({uri})"
CitationLineMutantIndexFromZero(source_index, title, uri) ==
    <<ToString(source_index - 1), ". [", title, "](", uri, ")">>

CitationLine(source_index, title, uri) ==
    <<ToString(source_index), ". [", title, "](", uri, ")">>

\* mutated: the command-line rendering does not consult seen_uris
CliStepMutantNoDedup(st, attribution) ==
    IF st.raised THEN st
    ELSE IF AttributionRaises(attribution)
    THEN [raised |-> TRUE, citations |-> << >>, seen_uris |-> {}, source_index |-> 0]
    ELSE IF Truthy(UriOf(attribution))
    THEN [raised |-> FALSE,
          citations |-> Append(st.citations,
                               CitationLine(st.source_index, TitleOf(attribution),
                                            UriOf(attribution))),
          seen_uris |-> st.seen_uris \cup {UriOf(attribution)},
          source_index |-> st.source_index + 1]
    ELSE st

\* one iteration of the for loop; st = [raised, citations, seen_uris, source_index],
\* citations being the list of lines
CliStep(st, attribution) ==
    IF st.raised THEN st
    ELSE IF AttributionRaises(attribution)
    THEN [raised |-> TRUE, citations |-> << >>, seen_uris |-> {}, source_index |-> 0]
    ELSE IF Emits(UriOf(attribution), st.seen_uris)
    THEN [raised |-> FALSE,
          citations |-> Append(st.citations,
                               CitationLine(st.source_index, TitleOf(attribution),
                                            UriOf(attribution))),
          seen_uris |-> st.seen_uris \cup {UriOf(attribution)},
          source_index |-> st.source_index + 1]
    ELSE st

RECURSIVE CliLoop(_, _, _)
CliLoop(sources, i, st) ==
    IF i > Len(sources) THEN st
    ELSE CliLoop(sources, i + 1, CliStep(st, sources[i]))

\* "\n".join(lines): the lines' tokens with a "\n" token between two lines
RECURSIVE Join(_)
Join(lines) ==
    IF Len(lines) = 0 THEN << >>
    ELSE IF Len(lines) = 1 THEN lines[1]
    ELSE lines[1] \o <<"\n">> \o Join(Tail(lines))

\* [raised, text |-> the returned string]
format_citations_cli(sources) ==
    IF Len(sources) = 0 THEN [raised |-> FALSE, text |-> << >>]
    ELSE LET st == CliLoop(sources, 1,
                           [raised |-> FALSE, citations |-> <<(<<Header>>)>>,
                            seen_uris |-> {}, source_index |-> 1])
         IN  IF st.raised THEN [raised |-> TRUE, text |-> << >>]
             ELSE IF Len(st.citations) > 1
             THEN [raised |-> FALSE, text |-> Join(st.citations) \o <<Footer>>]
             ELSE [raised |-> FALSE, text |-> << >>]

-----------------------------------------------------------------------------
(* Python strings as sequences of one-character tokens: str.strip() *)

Chars == {" ", "a"}

IsSpace(c) == c = " "

RECURSIVE LStrip(_)
LStrip(s) ==
    IF Len(s) > 0 /\ IsSpace(Head(s)) THEN LStrip(Tail(s)) ELSE s

RECURSIVE RStrip(_)
RStrip(s) ==
    IF Len(s) > 0 /\ IsSpace(s[Len(s)]) THEN RStrip(SubSeq(s, 1, Len(s) - 1)) ELSE s

Strip(s) == RStrip(LStrip(s))

-----------------------------------------------------------------------------
(* The provider's answer to one requests.post *)

ProviderText == "Answer"

\* The members of the answer's JSON body that call_gemini_api reads.
\*   candidates : the 'candidates' member is absent, [], [null] or [candidate]
\*   extra      : the candidate has members other than content and
\*                groundingMetadata (finishReason, index, ...)
\*   content    : the candidate's content is absent, has no 'parts', has
\*                parts = [], has a first part without 'text', or one with it
\*   grounding  : groundingMetadata is absent, lacks groundingAttributions,
\*                or has the list `attributions`
NoBody ==
    [candidates |-> "absent", extra |-> FALSE, content |-> "absent", text |-> Absent,
     grounding |-> "absent", attributions |-> << >>]

\* Text extraction and source extraction read disjoint members, so the long
\* attribution lists are paired with the answers that carry a text, and the
\* other content shapes with the lists of at most one attribution.
Bodies ==
    {[NoBody EXCEPT !.candidates = c] : c \in {"absent", "empty", "null_first"}}
    \cup {[NoBody EXCEPT !.candidates = "one", !.extra = x] : x \in BOOLEAN}
    \cup {[candidates |-> "one", extra |-> TRUE, content |-> c,
           text |-> IF c = "text" THEN ProviderText ELSE Absent,
           grounding |-> g, attributions |-> << >>] :
             c \in {"absent", "no_parts", "empty_parts", "no_text", "text"},
             g \in {"absent", "no_attributions"}}
    \cup {[candidates |-> "one", extra |-> TRUE, content |-> c, text |-> Absent,
           grounding |-> "attributions", attributions |-> a] :
             c \in {"absent", "no_parts", "empty_parts", "no_text"},
             a \in {<< >>} \cup {<<x>> : x \in Attributions}}
    \cup {[candidates |-> "one", extra |-> TRUE, content |-> "text", text |-> ProviderText,
           grounding |-> "attributions", attributions |-> a] :
             a \in SeqsUpTo(Attributions, MaxAttributions)}

\* what requests.post / raise_for_status / response.json() can end in
TransportKinds == {"ConnectionError", "Timeout", "HTTPError 4xx", "HTTPError 5xx"}

Outcomes ==
    {[kind |-> k, body |-> NoBody] : k \in TransportKinds \cup {"JSONDecodeError"}}
    \cup {[kind |-> "OK", body |-> b] : b \in Bodies}

\* Ctrl-C while the call is in flight: KeyboardInterrupt, raised in the terminal
\* session of the command-line mode
Interrupted == [kind |-> "KeyboardInterrupt", body |-> NoBody]

\* requests >= 2.27 raises requests.exceptions.JSONDecodeError from
\* response.json(), a subclass of RequestException; older releases let
\* json's ValueError through.  The repository pins no version.
RequestsVersions == {"before 2.27", "2.27 or later"}

-----------------------------------------------------------------------------
(* get_base_payload *)

\* the text of SYSTEM_PROMPT, by its first line
SYSTEM_PROMPT == "You are 'VISION', a highly sophisticated artificial intelligence, ..."

NoPayload == [contents |-> << >>, systemInstruction |-> "", tools |-> {}]

\* contents[0].parts[0].text, systemInstruction.parts[0].text, the keys of tools[0]
get_base_payloadMutantQueryAsInstruction(query) ==
    [contents |-> query,
     systemInstruction |-> IF Len(query) > 1 THEN query[1] ELSE SYSTEM_PROMPT,
     tools |-> {"google_search"}]

get_base_payload(query) ==
    [contents |-> query, systemInstruction |-> SYSTEM_PROMPT, tools |-> {"google_search"}]

-----------------------------------------------------------------------------
(* call_gemini_api *)

NoCandidatesText == <<"Error: API response contained no candidates.">>

TextNotFound == "Error: Text content not found."

ExhaustedText(e) ==
    <<"Error: Failed to connect to the AI system after ", ToString(max_retries),
      " attempts. Request Exception: ", e>>

CriticalText(e) ==
    <<"Critical Error: An unexpected issue prevented processing. Exception: ", e>>

MysteryText == <<"Error: Request failed mysteriously.">>

RECURSIVE Pow2(_)
Pow2(n) == IF n = 0 THEN 1 ELSE 2 * Pow2(n - 1)

\* delay = INITIAL_DELAY_SECONDS * (2 ** attempt)
DelayMutantNextPower(a) == INITIAL_DELAY_SECONDS * Pow2(a + 1)

Delay(a) == INITIAL_DELAY_SECONDS * Pow2(a)

Raise(class, detail) ==
    [exc |-> class, detail |-> detail, text |-> << >>, sources |-> << >>]

Return(text, sources) ==
    [exc |-> "none", detail |-> "", text |-> text, sources |-> sources]

\* `not candidate`: None and the empty dict are falsy
CandidateFalsy(body) ==
    \/ body.candidates \in {"absent", "null_first"}
    \/ body.candidates = "one" /\ ~body.extra /\ body.content = "absent"
                               /\ body.grounding = "absent"

\* candidate.get('content', {}).get('parts', [{}])[0].get('text', <placeholder>)
ExtractText(body) ==
    IF body.content = "text" THEN <<body.text>> ELSE <<TextNotFound>>

\* the groundingMetadata / groundingAttributions test: a missing member and an
\* empty list are falsy
ExtractSources(body) ==
    IF body.grounding = "attributions" /\ Len(body.attributions) > 0
    THEN body.attributions
    ELSE << >>

\* which except clause catches response.json()'s error
JsonErrorClass(version) ==
    IF version = "2.27 or later" THEN "RequestException" ELSE "Exception"

\* the body of the try statement, for one provider outcome: what it returns,
\* or the exception that leaves it
TryBodyMutantNoRaiseForStatus(outcome, version) ==
    IF outcome.kind = "KeyboardInterrupt"
    THEN Raise("BaseException", outcome.kind)
    ELSE IF outcome.kind \in {"ConnectionError", "Timeout"}
    THEN Raise("RequestException", outcome.kind)
    ELSE IF outcome.kind \in {"HTTPError 4xx", "HTTPError 5xx"}
    THEN Return(NoCandidatesText, << >>)
    ELSE IF outcome.kind = "JSONDecodeError"
    THEN Raise(JsonErrorClass(version), "JSONDecodeError")
    ELSE IF outcome.body.candidates = "empty"
    THEN Raise("Exception", "list index out of range")
    ELSE IF CandidateFalsy(outcome.body)
    THEN Return(NoCandidatesText, << >>)
    ELSE IF outcome.body.content = "empty_parts"
    THEN Raise("Exception", "list index out of range")
    ELSE Return(ExtractText(outcome.body), ExtractSources(outcome.body))

TryBody(outcome, version) ==
    IF outcome.kind = "KeyboardInterrupt"
    THEN Raise("BaseException", outcome.kind)
    ELSE IF outcome.kind \in TransportKinds
    THEN Raise("RequestException", outcome.kind)
    ELSE IF outcome.kind = "JSONDecodeError"
    THEN Raise(JsonErrorClass(version), "JSONDecodeError")
    ELSE IF outcome.body.candidates = "empty"
    THEN Raise("Exception", "list index out of range")
    ELSE IF CandidateFalsy(outcome.body)
    THEN Return(NoCandidatesText, << >>)
    ELSE IF outcome.body.content = "empty_parts"
    THEN Raise("Exception", "list index out of range")
    ELSE Return(ExtractText(outcome.body), ExtractSources(outcome.body))

\* the retry test of the RequestException clause
MayRetryMutantOneMore(a) == a < max_retries

MayRetry(a) == a < max_retries - 1

\* what one iteration of the for loop ends in
Returns(text, sources) ==
    [ends |-> "return", text |-> text, sources |-> sources, sleep |-> << >>]

\* time.sleep(delay), then the next iteration
Sleeps(delay) ==
    [ends |-> "continue", text |-> << >>, sources |-> << >>, sleep |-> <<delay>>]

\* no except clause catches the exception: it leaves call_gemini_api
Propagates(detail) ==
    [ends |-> "raise", text |-> <<detail>>, sources |-> << >>, sleep |-> << >>]

\* one iteration of the for loop, for one provider outcome
IterationMutantRetryAll(a, outcome, version) ==
    LET t == TryBody(outcome, version) IN
    IF t.exc = "none" THEN Returns(t.text, t.sources)
    ELSE IF t.exc \in {"RequestException", "Exception"}
    THEN IF MayRetry(a) THEN Sleeps(Delay(a))
         ELSE Returns(ExhaustedText(t.detail), << >>)
    ELSE Propagates(t.detail)

IterationMutantNoGenericClause(a, outcome, version) ==
    LET t == TryBody(outcome, version) IN
    IF t.exc = "none" THEN Returns(t.text, t.sources)
    ELSE IF t.exc = "RequestException"
    THEN IF MayRetry(a) THEN Sleeps(Delay(a))
         ELSE Returns(ExhaustedText(t.detail), << >>)
    ELSE Propagates(t.detail)

IterationMutantSleepOnLast(a, outcome, version) ==
    LET t == TryBody(outcome, version) IN
    IF t.exc = "none" THEN Returns(t.text, t.sources)
    ELSE IF t.exc = "RequestException"
    THEN IF MayRetry(a) THEN Sleeps(Delay(a))
         ELSE [Returns(ExhaustedText(t.detail), << >>) EXCEPT !.sleep = <<Delay(a)>>]
    ELSE IF t.exc = "Exception" THEN Returns(CriticalText(t.detail), << >>)
    ELSE Propagates(t.detail)

Iteration(a, outcome, version) ==
    LET t == TryBody(outcome, version) IN
    IF t.exc = "none" THEN Returns(t.text, t.sources)
    ELSE IF t.exc = "RequestException"
    THEN IF MayRetry(a) THEN Sleeps(Delay(a))
         ELSE Returns(ExhaustedText(t.detail), << >>)
    ELSE IF t.exc = "Exception" THEN Returns(CriticalText(t.detail), << >>)
    ELSE Propagates(t.detail)

-----------------------------------------------------------------------------
(* api_ask *)

\* the requests the handler can be given: get_json() yields None or a dict;
\* the dict has no 'query', a 'query' that is no string, or a string
Requests ==
    {[json |-> j, query |-> "absent", text |-> << >>] : j \in {"none", "object"}}
    \cup {[json |-> "object", query |-> "number", text |-> << >>]}
    \cup {[json |-> "object", query |-> "string", text |-> s] : s \in SeqsUpTo(Chars, MaxQueryLen)}

NoRequest == [json |-> "none", query |-> "absent", text |-> << >>]

NoResult == [text |-> << >>, sources |-> << >>]

NoHttp ==
    [status |-> 0, keys |-> {}, query |-> << >>, response |-> << >>,
     citations |-> << >>, error |-> << >>]

\* jsonify({"error": ...}), status
ErrorResponse(status, error) ==
    [NoHttp EXCEPT !.status = status, !.keys = {"error"}, !.error = error]

\* mutated: the response does not carry str(e)
InternalErrorMutantNoDetail(detail) ==
    ErrorResponse(500, <<"Internal server error: ">>)

InternalError(detail) ==
    ErrorResponse(500, <<"Internal server error: ", detail>>)

\* jsonify({"query": ..., "response": ..., "citations": ...}), status 200
OkResponseMutantNoResponse(query, text, citations) ==
    [NoHttp EXCEPT !.status = 200, !.keys = {"query", "citations"},
                   !.query = query, !.citations = citations]

OkResponse(query, text, citations) ==
    [NoHttp EXCEPT !.status = 200, !.keys = {"query", "response", "citations"},
                   !.query = query, !.response = text, !.citations = citations]

\* data.get('query', '').strip()
QueryOfMutantNoStrip(req) ==
    IF req.query = "absent" THEN << >> ELSE req.text

QueryOf(req) ==
    Strip(IF req.query = "absent" THEN << >> ELSE req.text)

\* the handler up to the call of call_gemini_api: the response it returns
\* there (status 400 or 500), or status 0 when it goes on with the call
Validate(req) ==
    IF req.json = "none"
    THEN InternalError("'NoneType' object has no attribute 'get'")
    ELSE IF req.query = "number"
    THEN InternalError("'int' object has no attribute 'strip'")
    ELSE IF QueryOf(req) = << >>
    THEN ErrorResponse(400, <<"No query provided.">>)
    ELSE NoHttp

\* the handler after call_gemini_api has returned
Respond(query, res) ==
    LET f == format_citations_list(res.sources) IN
    IF f.raised
    THEN InternalError("'NoneType' object has no attribute 'get'")
    ELSE OkResponse(query, res.text, f.citations)

-----------------------------------------------------------------------------
(* The web process *)

FmtIdle ==
    /\ fmt_pc = {}
    /\ fmt_sources = << >>
    /\ fmt_list = [raised |-> FALSE, citations |-> << >>]
    /\ fmt_cli = [raised |-> FALSE, text |-> << >>]

NoInput == [kind |-> "none", text |-> << >>]

NoPrint == [text |-> << >>, citations |-> << >>]

CliIdle ==
    /\ cli_input = NoInput
    /\ printed = NoPrint

\* no call of call_gemini_api is under way or has been made
NoCall ==
    /\ user_query = << >>
    /\ payload = NoPayload
    /\ attempt = 0
    /\ net_calls = 0
    /\ sleeps = << >>
    /\ history = << >>
    /\ last_body = NoBody
    /\ result = NoResult

WebIdle ==
    /\ pc = "idle"
    /\ request = NoRequest
    /\ NoCall
    /\ http = NoHttp

Init ==
    /\ requests_version \in RequestsVersions
    /\ max_retries = MAX_RETRIES
    /\ WebIdle
    /\ CliIdle
    /\ FmtIdle

\* call_gemini_api(query) up to its first requests.post: the payload is built,
\* and the loop is entered (or skipped, were MAX_RETRIES zero)
CallGeminiApi(query) ==
    /\ user_query' = query
    /\ payload' = get_base_payload(query)
    /\ attempt' = 0
    /\ net_calls' = 0
    /\ sleeps' = << >>
    /\ history' = << >>
    /\ last_body' = NoBody
    /\ IF max_retries > 0
       THEN /\ pc' = "attempt"
            /\ result' = NoResult
       ELSE /\ pc' = "returned"
            /\ result' = [text |-> MysteryText, sources |-> << >>]

\* the variables of the call, when no call is made
ClearCall ==
    /\ user_query' = << >>
    /\ payload' = NoPayload
    /\ attempt' = 0
    /\ net_calls' = 0
    /\ sleeps' = << >>
    /\ history' = << >>
    /\ last_body' = NoBody
    /\ result' = NoResult

\* A request arrives and api_ask runs up to its first network call, or to the
\* response it returns without one.
ApiAskBegin(req) ==
    /\ pc = "idle"
    /\ request' = req
    /\ http' = Validate(req)
    /\ IF Validate(req).status # 0
       THEN /\ pc' = "responded"
            /\ ClearCall
       ELSE CallGeminiApi(QueryOf(req))
    /\ UNCHANGED <<requests_version, max_retries, cli_input, printed,
                   fmt_pc, fmt_sources, fmt_list, fmt_cli>>

\* One iteration of call_gemini_api's loop: the POST, the provider's outcome,
\* and what the try statement makes of it.
Attempt(outcome) ==
    /\ pc = "attempt"
    /\ net_calls' = net_calls + 1
    /\ history' = Append(history, outcome.kind)
    /\ last_body' = outcome.body
    /\ LET it == Iteration(attempt, outcome, requests_version) IN
       /\ sleeps' = sleeps \o [i \in 1..Len(it.sleep) |->
                                 [after |-> attempt, duration |-> it.sleep[i]]]
       /\ IF it.ends = "return"
          THEN /\ pc' = "returned"
               /\ result' = [text |-> it.text, sources |-> it.sources]
               /\ UNCHANGED attempt
          ELSE IF it.ends = "raise"
          THEN /\ pc' = "raised"
               /\ result' = [text |-> it.text, sources |-> << >>]
               /\ UNCHANGED attempt
          ELSE /\ attempt' = attempt + 1
               /\ IF attempt + 1 < max_retries
                  THEN /\ pc' = "attempt"
                       /\ UNCHANGED result
                  ELSE /\ pc' = "returned"
                       /\ result' = [text |-> MysteryText, sources |-> << >>]
    /\ UNCHANGED <<requests_version, max_retries, request, user_query, payload, http,
                   cli_input, printed, fmt_pc, fmt_sources, fmt_list, fmt_cli>>

\* call_gemini_api has returned: api_ask formats the citations and responds;
\* an exception that left call_gemini_api is caught by api_ask's except clause.
ApiAskEnd ==
    /\ pc \in {"returned", "raised"}
    /\ http' = IF pc = "raised" THEN InternalError(result.text[1])
               ELSE Respond(user_query, result)
    /\ pc' = "responded"
    /\ UNCHANGED <<requests_version, max_retries, request, user_query, payload, attempt,
                   net_calls, sleeps, history, last_body, result, cli_input, printed,
                   fmt_pc, fmt_sources, fmt_list, fmt_cli>>

\* The response has been sent; the process waits for the next request.
Serve ==
    /\ pc = "responded"
    /\ pc' = "idle"
    /\ request' = NoRequest
    /\ ClearCall
    /\ http' = NoHttp
    /\ UNCHANGED <<requests_version, max_retries, cli_input, printed,
                   fmt_pc, fmt_sources, fmt_list, fmt_cli>>

Next ==
    \/ \E req \in Requests : ApiAskBegin(req)
    \/ \E outcome \in Outcomes : Attempt(outcome)
    \/ ApiAskEnd
    \/ Serve

Spec == Init /\ [][Next]_vars

-----------------------------------------------------------------------------
(* The formatters on their own: every raw source list up to MaxSources *)

InitFmt ==
    /\ requests_version = "2.27 or later"
    /\ max_retries = MAX_RETRIES
    /\ WebIdle
    /\ CliIdle
    /\ fmt_pc = {}
    /\ fmt_sources \in SeqsUpTo(Attributions, MaxSources)
    /\ fmt_list = [raised |-> FALSE, citations |-> << >>]
    /\ fmt_cli = [raised |-> FALSE, text |-> << >>]

FormatList ==
    /\ "list" \notin fmt_pc
    /\ fmt_list' = format_citations_list(fmt_sources)
    /\ fmt_pc' = fmt_pc \cup {"list"}
    /\ UNCHANGED <<fmt_sources, fmt_cli>>
    /\ UNCHANGED <<web_vars, cli_vars>>

FormatCli ==
    /\ "cli" \notin fmt_pc
    /\ fmt_cli' = format_citations_cli(fmt_sources)
    /\ fmt_pc' = fmt_pc \cup {"cli"}
    /\ UNCHANGED <<fmt_sources, fmt_list>>
    /\ UNCHANGED <<web_vars, cli_vars>>

NextFmt ==
    \/ FormatList
    \/ FormatCli

SpecFmt == InitFmt /\ [][NextFmt]_vars

-----------------------------------------------------------------------------
(* Vocabulary of the properties *)

\* call_gemini_api has been called for the current request and has returned
CallReturned == pc \in {"returned", "responded"} /\ Len(history) > 0

\* the outcome kind of the latest attempt
LastKind == history[Len(history)]

\* every attempt so far, but possibly the latest, ended in a transport failure
EarlierAllTransport == \A i \in 1..(Len(history) - 1) : history[i] \in TransportKinds

AllTransport == \A i \in 1..Len(history) : history[i] \in TransportKinds

\* no time.sleep followed the latest attempt
NoSleepAfterLast == \A j \in 1..Len(sleeps) : sleeps[j].after < Len(history) - 1

\* the request's query is a string with a character that is no whitespace
QueryNonEmpty(req) ==
    /\ req.json = "object"
    /\ req.query = "string"
    /\ \E i \in 1..Len(req.text) : req.text[i] # " "

\* the request's query is missing, empty or whitespace only
QueryEmpty(req) ==
    /\ req.json = "object"
    /\ \/ req.query = "absent"
       \/ req.query = "string" /\ \A i \in 1..Len(req.text) : req.text[i] = " "

-----------------------------------------------------------------------------
(* C1 *)

\* C1 as stated: the sleep before attempt i lasts
\* INITIAL_DELAY_SECONDS * 2^i (the sleep recorded after attempt i - 1).
C1_SleepBeforeAttemptIsTwoToTheI ==
    \A j \in 1..Len(sleeps) :
        sleeps[j].duration = INITIAL_DELAY_SECONDS * Pow2(sleeps[j].after + 1)

\* C1 (amended): no sleep happens before attempt 0, and for every retry
\* attempt i > 0 the sleep performed immediately before attempt i, the i-th
\* sleep of the call, lasts INITIAL_DELAY_SECONDS * 2^(i-1); with failures on
\* attempts 1 and 2 and success on attempt 3 of 3 the two sleeps last
\* initial_delay*1 and initial_delay*2 in that order.
C1_BackoffSchedule ==
    /\ Len(history) = 0 => sleeps = << >>
    /\ \A i \in 1..Len(sleeps) :
          /\ sleeps[i].after = i - 1
          /\ i < Len(history) \/ (i = Len(history) /\ pc = "attempt")
          /\ sleeps[i].duration = INITIAL_DELAY_SECONDS * Pow2(i - 1)
    /\ (CallReturned /\ Len(history) = 3 /\ LastKind = "OK")
          => [i \in 1..Len(sleeps) |-> sleeps[i].duration]
               = <<INITIAL_DELAY_SECONDS, INITIAL_DELAY_SECONDS * 2>>

C1_Witness ==
    /\ CallReturned
    /\ history = <<"Timeout", "ConnectionError", "OK">>
    /\ result.text = <<ProviderText>>
    /\ Len(sleeps) = 2

-----------------------------------------------------------------------------
(* C2 *)

\* C2: while the first k < MAX_RETRIES attempts have all ended in a transport
\* failure (connection error, timeout, non-2xx status) the call goes on to
\* attempt k+1; if that attempt answers with a candidate carrying a text, the
\* call returns that text and the candidate's attribution list, not the
\* exhaustion sentinel, after exactly k+1 network calls.
C2_SuccessAfterFailures ==
    /\ (Len(history) > 0 /\ Len(history) < MAX_RETRIES /\ AllTransport)
          => pc = "attempt" /\ attempt = Len(history) /\ net_calls = Len(history)
    /\ (Len(history) > 0 /\ EarlierAllTransport /\ LastKind = "OK"
          /\ last_body.candidates = "one" /\ last_body.content = "text")
          => /\ CallReturned
             /\ result.text = <<last_body.text>>
             /\ result.text[1] # "Error: Failed to connect to the AI system after "
             /\ result.sources = IF last_body.grounding = "attributions"
                                 THEN last_body.attributions ELSE << >>
             /\ net_calls = Len(history)

C2_Witness ==
    /\ CallReturned
    /\ history = <<"HTTPError 4xx", "HTTPError 5xx", "OK">>
    /\ result.text = <<ProviderText>>
    /\ Len(result.sources) > 0
    /\ net_calls = 3

-----------------------------------------------------------------------------
(* C3 *)

\* C3: if every one of the MAX_RETRIES attempts ends in a transport failure,
\* the call has returned after exactly MAX_RETRIES network calls, with the
\* exhaustion sentinel embedding the last exception's detail and an empty
\* source list.
C3_Exhaustion ==
    (Len(history) = MAX_RETRIES /\ AllTransport)
        => /\ CallReturned
           /\ net_calls = MAX_RETRIES
           /\ result.text = <<"Error: Failed to connect to the AI system after ",
                              ToString(MAX_RETRIES),
                              " attempts. Request Exception: ", LastKind>>
           /\ result.sources = << >>

C3_Witness ==
    /\ CallReturned
    /\ history = <<"ConnectionError", "HTTPError 5xx", "Timeout">>
    /\ result.text[4] = "Timeout"
    /\ result.sources = << >>

-----------------------------------------------------------------------------
(* C4 *)

\* C4: whenever an attempt gets a 2xx, parseable answer with zero candidates
\* (candidates absent, an empty list, or a null first element), the call
\* returns the "no candidates" sentinel with an empty source list at once,
\* without a sleep and without a further attempt.
C4_ZeroCandidatesSentinel ==
    (Len(history) > 0 /\ LastKind = "OK"
       /\ last_body.candidates \in {"absent", "empty", "null_first"})
        => /\ CallReturned
           /\ result.text = <<"Error: API response contained no candidates.">>
           /\ result.sources = << >>
           /\ NoSleepAfterLast
           /\ net_calls = Len(history)

-----------------------------------------------------------------------------
(* C5 *)

\* C5 as stated, on its own example: a malformed-JSON response body
\* makes the call return the "Critical Error" sentinel at once.
C5_MalformedJsonIsCritical ==
    (Len(history) > 0 /\ LastKind = "JSONDecodeError")
        => /\ CallReturned
           /\ result.text[1] = "Critical Error: An unexpected issue prevented processing. Exception: "
           /\ result.sources = << >>
           /\ NoSleepAfterLast

\* the latest attempt raised an exception that is no RequestException
LastRaisedOther ==
    /\ Len(history) > 0
    /\ \/ LastKind = "OK" /\ last_body.candidates = "empty"
       \/ LastKind = "OK" /\ last_body.candidates = "one" /\ last_body.content = "empty_parts"
       \/ LastKind = "JSONDecodeError" /\ requests_version = "before 2.27"

\* C5 (amended): any exception raised during an attempt that is not a
\* requests RequestException (an IndexError from an empty candidates or parts
\* list, the ValueError of response.json() under requests before 2.27), on any
\* attempt index, makes the call return the "Critical Error" sentinel with an
\* empty source list at once: no sleep and no further attempt follows it.  The
\* JSONDecodeError that response.json() raises under requests 2.27 or later is
\* a RequestException and is retried like a transport failure.
C5_OtherExceptionIsCritical ==
    /\ LastRaisedOther
          => /\ CallReturned
             /\ result.text[1] = "Critical Error: An unexpected issue prevented processing. Exception: "
             /\ Len(result.text) = 2
             /\ result.sources = << >>
             /\ NoSleepAfterLast
             /\ net_calls = Len(history)
    /\ (Len(history) > 0 /\ Len(history) < MAX_RETRIES /\ LastKind = "JSONDecodeError"
          /\ requests_version = "2.27 or later")
          => pc = "attempt" /\ Len(sleeps) = Len(history)

C5_Witness ==
    /\ CallReturned
    /\ Len(history) = 2
    /\ LastRaisedOther
    /\ LastKind = "OK"
    /\ result.text[1] = "Critical Error: An unexpected issue prevented processing. Exception: "
    /\ Len(sleeps) = 1

-----------------------------------------------------------------------------
(* C6 *)

\* C6 as stated: for every request whose query is non-empty after
\* trimming and every behaviour of the provider, api_ask returns HTTP 200 with
\* a response field that is present and a non-null string.
C6_AlwaysOkWithResponse ==
    (pc = "responded" /\ QueryNonEmpty(request))
        => /\ http.status = 200
           /\ "response" \in http.keys
           /\ http.response \in Seq(STRING)

\* format_citations_list cannot read the attribution: it is no object, or its
\* web member is null
Unreadable(attribution) == ~attribution.obj \/ attribution.web = "null"

\* C6 (amended): for every request to POST /api/ask whose query is non-empty
\* after trimming, and for every behaviour of the provider (success, empty
\* result, malformed response, transport failure on any or all attempts),
\* api_ask returns HTTP 200 with a response field that is present and holds
\* the text call_gemini_api returned (a non-null string), unless the returned
\* attribution list makes format_citations_list raise (an attribution that is
\* no object, or whose web member is null): then api_ask returns HTTP 500 with
\* an error field and no response field.
C6_OkWithResponseUnlessFormatterRaises ==
    (pc = "responded" /\ QueryNonEmpty(request))
        => /\ CallReturned
           /\ IF \E i \in 1..Len(result.sources) : Unreadable(result.sources[i])
              THEN /\ http.status = 500
                   /\ http.keys = {"error"}
              ELSE /\ http.status = 200
                   /\ http.keys = {"query", "response", "citations"}
                   /\ http.response \in Seq(STRING)
                   /\ Len(http.response) > 0
                   /\ http.response = result.text

C6_Witness ==
    /\ pc = "responded"
    /\ QueryNonEmpty(request)
    /\ Len(history) = MAX_RETRIES
    /\ AllTransport
    /\ http.status = 200
    /\ http.response[1] = "Error: Failed to connect to the AI system after "

-----------------------------------------------------------------------------
(* C7 *)

\* C7: for every request to POST /api/ask whose query is empty, whitespace
\* only or missing, api_ask returns HTTP 400 with an error field, and no
\* network call to the provider is made during that request.
C7_EmptyQueryRejected ==
    QueryEmpty(request)
        => /\ pc = "responded"
           /\ http.status = 400
           /\ http.keys = {"error"}
           /\ net_calls = 0
           /\ history = << >>

C7_Witness ==
    /\ pc = "responded"
    /\ request.query = "string"
    /\ Len(request.text) = 2
    /\ QueryEmpty(request)
    /\ http.status = 400

-----------------------------------------------------------------------------
(* Vocabulary of the formatter properties *)

\* the uri of the i-th attribution of a raw source list, Absent when it has none
UriAt(sources, i) ==
    IF sources[i].obj /\ sources[i].web = "object" THEN sources[i].uri ELSE Absent

\* its title, "Untitled Source" when it has none
TitleAt(sources, i) ==
    IF sources[i].obj /\ sources[i].web = "object" /\ sources[i].title # Absent
    THEN sources[i].title
    ELSE "Untitled Source"

\* the positions at which a uri that is neither missing nor empty occurs for
\* the first time
FirstSeen(sources) ==
    {i \in 1..Len(sources) :
        /\ UriAt(sources, i) \notin {Absent, ""}
        /\ \A k \in 1..(i - 1) : UriAt(sources, k) # UriAt(sources, i)}

\* the n-th smallest of them
NthFirstSeen(sources, n) ==
    CHOOSE i \in FirstSeen(sources) :
        Cardinality({k \in FirstSeen(sources) : k < i}) = n - 1

ListReturned == "list" \in fmt_pc /\ ~fmt_list.raised

CliReturned == "cli" \in fmt_pc /\ ~fmt_cli.raised

-----------------------------------------------------------------------------
(* C8 *)

\* C8: in the list format_citations_list returns, each URI occurs at most
\* once, each entry carries the title of the first attribution of the input
\* that has that URI ("Untitled Source" if that one has no title), and the
\* entries appear in the order in which their URIs first occur in the input.
C8_UniqueFirstSeen ==
    ListReturned =>
        LET c == fmt_list.citations IN
        /\ \A i, j \in 1..Len(c) : i # j => c[i].uri # c[j].uri
        /\ \A j \in 1..Len(c) :
              \E i \in 1..Len(fmt_sources) :
                 /\ UriAt(fmt_sources, i) = c[j].uri
                 /\ \A k \in 1..(i - 1) : UriAt(fmt_sources, k) # c[j].uri
                 /\ c[j].title = TitleAt(fmt_sources, i)
        /\ \A j1, j2 \in 1..Len(c) :
              j1 < j2 =>
                 \E i1, i2 \in 1..Len(fmt_sources) :
                    /\ i1 < i2
                    /\ UriAt(fmt_sources, i1) = c[j1].uri
                    /\ UriAt(fmt_sources, i2) = c[j2].uri
                    /\ \A k \in 1..(i2 - 1) : UriAt(fmt_sources, k) # c[j2].uri

C8_Witness ==
    /\ ListReturned
    /\ Len(fmt_sources) = 3
    /\ UriAt(fmt_sources, 1) = "https://b.com"
    /\ UriAt(fmt_sources, 2) = "https://a.com"
    /\ UriAt(fmt_sources, 3) = "https://b.com"
    /\ TitleAt(fmt_sources, 1) = "Title 1"
    /\ TitleAt(fmt_sources, 3) = "Title 2"
    /\ fmt_list.citations = <<[title |-> "Title 1", uri |-> "https://b.com"],
                              [title |-> TitleAt(fmt_sources, 2), uri |-> "https://a.com"]>>

-----------------------------------------------------------------------------
(* C9 *)

\* C9 as stated: the number of entries equals the number of distinct
\* non-null URI values of the input, an empty-string URI counting as one.
C9_CountsNonNullUris ==
    ListReturned =>
        Len(fmt_list.citations)
          = Cardinality({UriAt(fmt_sources, i) : i \in 1..Len(fmt_sources)} \ {Absent})

\* C9 (amended): format_citations_list excludes each attribution that has no
\* uri or an empty-string uri, and the number of entries it returns equals the
\* number of distinct non-empty URI values present in the input.
C9_CountsNonEmptyUris ==
    ListReturned =>
        /\ \A j \in 1..Len(fmt_list.citations) :
              fmt_list.citations[j].uri \notin {Absent, ""}
        /\ Len(fmt_list.citations)
             = Cardinality({UriAt(fmt_sources, i) : i \in 1..Len(fmt_sources)}
                             \ {Absent, ""})

C9_Witness ==
    /\ ListReturned
    /\ Len(fmt_sources) = 3
    /\ UriAt(fmt_sources, 1) = ""
    /\ UriAt(fmt_sources, 2) = Absent
    /\ UriAt(fmt_sources, 3) = "https://a.com"
    /\ Len(fmt_list.citations) = 1

-----------------------------------------------------------------------------
(* C10 *)

\* the numbered lines of the Markdown rendering from the n-th on, each after
\* the "\n" that joins it to what precedes it
RECURSIVE NumberedLines(_, _)
NumberedLines(sources, n) ==
    IF n > Cardinality(FirstSeen(sources)) THEN << >>
    ELSE <<"\n", ToString(n), ". [", TitleAt(sources, NthFirstSeen(sources, n)), "](",
           UriAt(sources, NthFirstSeen(sources, n)), ")">>
         \o NumberedLines(sources, n + 1)

\* C10: format_citations_cli returns the empty string for an empty source
\* list and for any list that yields zero citations; for every other list it
\* returns the header banner, then one line "n. [title](uri)" per unique URI
\* in first-seen order with n running 1, 2, 3, ... without gaps, then the
\* footer banner.
C10_MarkdownRendering ==
    CliReturned =>
        fmt_cli.text =
            IF FirstSeen(fmt_sources) = {} THEN << >>
            ELSE <<"\n---\n**SOURCE LOG:**">> \o NumberedLines(fmt_sources, 1) \o <<"\n---\n">>

C10_Witness ==
    /\ CliReturned
    /\ Len(fmt_sources) = 3
    /\ Cardinality(FirstSeen(fmt_sources)) = 2
    /\ UriAt(fmt_sources, 1) = UriAt(fmt_sources, 2)
    /\ Len(fmt_cli.text) = 16
    /\ fmt_cli.text[9] = "\n"
    /\ fmt_cli.text[10] = "2"

-----------------------------------------------------------------------------
(* C11 *)

\* C11: whenever a 2xx answer has a candidate whose first content part's text
\* is absent (content missing, parts missing or empty, or a first part
\* without a text member), call_gemini_api returns the placeholder
\* "Error: Text content not found." as the text, together with the
\* candidate's attribution list; the absence never turns the call into a
\* failure outcome.
C11_TextNotFoundPlaceholder ==
    (Len(history) > 0 /\ LastKind = "OK" /\ last_body.candidates = "one" /\ last_body.extra
       /\ last_body.content \in {"absent", "no_parts", "empty_parts", "no_text"})
        => /\ CallReturned
           /\ result.text = <<"Error: Text content not found.">>
           /\ result.sources = IF last_body.grounding = "attributions"
                               THEN last_body.attributions ELSE << >>

-----------------------------------------------------------------------------
(* main_assistant_loop: the command-line mode *)

LowerChar(c) ==
    CASE c = "E" -> "e" [] c = "X" -> "x" [] c = "I" -> "i" [] c = "T" -> "t"
      [] c = "Q" -> "q" [] c = "U" -> "u" [] OTHER -> c

\* str.lower(), mutated: the line is compared as typed
LowerMutantAsTyped(s) == s

\* str.lower()
Lower(s) == [i \in 1..Len(s) |-> LowerChar(s[i])]

\* the list ['exit', 'quit'] of the loop's first test
ExitWords == {<<"e", "x", "i", "t">>, <<"q", "u", "i", "t">>}

\* The lines input() can give: every string over Chars up to MaxQueryLen, the
\* exit commands in several letter cases, and the word exit with whitespace
\* around it.
Lines ==
    SeqsUpTo(Chars, MaxQueryLen)
    \cup {<<"e", "x", "i", "t">>, <<"E", "X", "I", "T">>, <<"E", "x", "i", "t">>,
          <<"q", "u", "i", "t">>, <<"Q", "u", "I", "t">>,
          <<" ", "e", "x", "i", "t">>, <<"e", "x", "i", "t", " ">>}

\* what input() can end in
CliEvents ==
    {[kind |-> "line", text |-> l] : l \in Lines}
    \cup {[kind |-> k, text |-> << >>] : k \in {"EOFError", "KeyboardInterrupt"}}

InitCli ==
    /\ requests_version \in RequestsVersions
    /\ max_retries = MAX_RETRIES
    /\ pc = "prompt"
    /\ request = NoRequest
    /\ NoCall
    /\ http = NoHttp
    /\ CliIdle
    /\ FmtIdle

\* input() and the two tests on the line, up to the first network call of
\* call_gemini_api(user_input) when the line is a query
CliRead(event) ==
    /\ pc = "prompt"
    /\ cli_input' = event
    /\ printed' = NoPrint
    /\ IF event.kind # "line" \/ Lower(event.text) \in ExitWords
       THEN /\ pc' = "done"
            /\ ClearCall
       ELSE IF Strip(event.text) = << >>
       THEN /\ pc' = "prompt"
            /\ ClearCall
       ELSE CallGeminiApi(event.text)
    /\ UNCHANGED <<requests_version, max_retries, request, http,
                   fmt_pc, fmt_sources, fmt_list, fmt_cli>>

\* call_gemini_api has returned: the text is printed when it is not empty,
\* then the citations; an exception of format_citations_cli is not one the
\* loop catches, and ends main_assistant_loop.  The loop keeps user_input,
\* generated_text and sources; the locals of call_gemini_api are gone.
CliPrint ==
    /\ pc = "returned"
    /\ LET c == format_citations_cli(result.sources) IN
       IF c.raised
       THEN /\ pc' = "crashed"
            /\ printed' = [text |-> result.text, citations |-> << >>]
       ELSE /\ pc' = "prompt"
            /\ printed' = [text |-> result.text, citations |-> c.text]
    /\ payload' = NoPayload
    /\ attempt' = 0
    /\ sleeps' = << >>
    /\ history' = << >>
    /\ last_body' = NoBody
    /\ UNCHANGED <<requests_version, max_retries, request, user_query, net_calls, result,
                   http, cli_input, fmt_pc, fmt_sources, fmt_list, fmt_cli>>

\* KeyboardInterrupt left call_gemini_api: the loop's except clause ends it
CliExcept ==
    /\ pc = "raised"
    /\ pc' = "done"
    /\ UNCHANGED <<requests_version, max_retries, request, user_query, payload, attempt,
                   net_calls, sleeps, history, last_body, result, http, cli_input, printed,
                   fmt_pc, fmt_sources, fmt_list, fmt_cli>>

NextCli ==
    \/ \E event \in CliEvents : CliRead(event)
    \/ \E outcome \in Outcomes \cup {Interrupted} : Attempt(outcome)
    \/ CliPrint
    \/ CliExcept

SpecCli == InitCli /\ [][NextCli]_vars

-----------------------------------------------------------------------------
(* C12, C13 *)

\* C12: whenever call_gemini_api is running, through api_ask as through
\* main_assistant_loop, the query it was handed is non-empty, has no leading
\* and no trailing whitespace, and is the contents of the outbound payload.
C12_QueryTrimmedNonEmpty ==
    pc = "attempt" =>
        /\ Len(user_query) > 0
        /\ ~IsSpace(user_query[1])
        /\ ~IsSpace(user_query[Len(user_query)])
        /\ payload.contents = user_query

UpperChar(c) ==
    CASE c = "e" -> "E" [] c = "x" -> "X" [] c = "i" -> "I" [] c = "t" -> "T"
      [] c = "q" -> "Q" [] c = "u" -> "U" [] OTHER -> c

\* the line is exit or quit, each letter in either case
IsExitCommand(l) ==
    \E w \in {<<"e", "x", "i", "t">>, <<"q", "u", "i", "t">>} :
        /\ Len(l) = Len(w)
        /\ \A i \in 1..Len(w) : l[i] \in {w[i], UpperChar(w[i])}

IsBlankLine(l) == \A i \in 1..Len(l) : l[i] = " "

IsQueryLine(e) == e.kind = "line" /\ ~IsExitCommand(e.text) /\ ~IsBlankLine(e.text)

C13_Step ==
    /\ pc = "prompt" =>
          /\ (cli_input'.kind # "line" \/ IsExitCommand(cli_input'.text)) =>
                 pc' = "done" /\ net_calls' = 0 /\ payload' = NoPayload
          /\ (cli_input'.kind = "line" /\ IsBlankLine(cli_input'.text)) =>
                 pc' = "prompt" /\ net_calls' = 0 /\ payload' = NoPayload
          /\ IsQueryLine(cli_input') =>
                 pc' = "attempt" /\ user_query' = cli_input'.text /\ net_calls' = 0
    /\ pc # "prompt" => cli_input' = cli_input /\ user_query' = user_query
    /\ pc = "attempt" => IsQueryLine(cli_input) /\ user_query = cli_input.text
    /\ (pc # "prompt" /\ pc' = "prompt") =>
          /\ pc = "returned"
          /\ net_calls >= 1
          /\ result' = result
          /\ printed'.text = result.text
    /\ pc' = "attempt" => pc \in {"prompt", "attempt"}

\* C13: in main_assistant_loop, a line that is exit or quit in any letter case,
\* an end of input and an interrupt each end the loop without a network call;
\* a blank line causes no network call and the loop reads again; every other
\* line starts exactly one call of call_gemini_api with that line, no line is
\* read while the call is under way, and the loop comes back to its prompt
\* only after the call has returned and its text has been printed.
C13_LoopIsSequential == [][C13_Step]_vars

C13_Witness ==
    /\ pc = "prompt"
    /\ IsQueryLine(cli_input)
    /\ net_calls = MAX_RETRIES
    /\ printed.text = <<ProviderText>>
    /\ printed.citations # << >>

-----------------------------------------------------------------------------
(* C14 *)

\* C14: whenever call_gemini_api is running, its payload has the query it was
\* given as contents, SYSTEM_PROMPT as systemInstruction and the google_search
\* tool marker; and get_base_payload gives every other query the same
\* systemInstruction and the same tools.
C14_PayloadOfQuery ==
    pc = "attempt" =>
        /\ payload = [contents |-> user_query, systemInstruction |-> SYSTEM_PROMPT,
                      tools |-> {"google_search"}]
        /\ \A q \in Lines :
               /\ get_base_payload(q).contents = q
               /\ get_base_payload(q).systemInstruction = payload.systemInstruction
               /\ get_base_payload(q).tools = payload.tools

C14_Witness ==
    /\ pc = "attempt"
    /\ net_calls = 1
    /\ Len(user_query) > 1
    /\ payload.contents = user_query

-----------------------------------------------------------------------------
(* C15 *)

\* the i-th attempt ended in an exception the retry clause catches
Retried(i) ==
    \/ history[i] \in TransportKinds
    \/ history[i] = "JSONDecodeError" /\ requests_version = "2.27 or later"

\* C15: whatever the attempts end in (transport failure, success, empty
\* result, unexpected exception), call_gemini_api makes at most MAX_RETRIES
\* network attempts, no exception leaves it, what it returns is a text with a
\* source list, and every attempt but the latest ended in a failure that is
\* retried: no attempt follows one that succeeded or short-circuited.
C15_BoundedAttemptsNoRaise ==
    /\ net_calls <= MAX_RETRIES
    /\ net_calls = Len(history)
    /\ pc # "raised"
    /\ pc = "attempt" => attempt = net_calls /\ attempt < MAX_RETRIES
    /\ \A i \in 1..(Len(history) - 1) : Retried(i)
    /\ pc = "attempt" => \A i \in 1..Len(history) : Retried(i)
    /\ pc = "returned" =>
          /\ Len(result.text) > 0
          /\ result.sources \in SeqsUpTo(Attributions, MaxAttributions)
          /\ ~Retried(Len(history)) \/ net_calls = MAX_RETRIES

C15_Witness ==
    /\ pc = "returned"
    /\ net_calls = MAX_RETRIES
    /\ LastKind = "JSONDecodeError"
    /\ requests_version = "before 2.27"
    /\ result.sources = << >>

-----------------------------------------------------------------------------
(* C16 *)

\* an exception was raised while api_ask handled the request: get_json gave no
\* object, the query value has no strip method, or the formatter raised on an
\* attribution of the returned list
RaisedInApiAsk ==
    \/ request.json = "none"
    \/ request.json = "object" /\ request.query = "number"
    \/ /\ Len(history) > 0
       /\ \E i \in 1..Len(result.sources) : Unreadable(result.sources[i])

\* C16: when an exception was raised while api_ask handled a request, the
\* response is HTTP 500 whose only member is an error field made of
\* "Internal server error: " and the exception's detail; api_ask always
\* comes to a response, and after it the process accepts the next request.
C16_ExceptionsBecome500 ==
    /\ pc \in {"idle", "attempt", "returned", "responded"}
    /\ pc = "responded" =>
          /\ http.status \in {200, 400, 500}
          /\ ENABLED Serve
          /\ RaisedInApiAsk <=> http.status = 500
          /\ http.status = 500 =>
                /\ http.keys = {"error"}
                /\ Len(http.error) = 2
                /\ http.error[1] = "Internal server error: "
                /\ http.error[2] # ""
    /\ pc = "idle" => \E req \in Requests : ENABLED ApiAskBegin(req)

C16_Witness ==
    /\ pc = "responded"
    /\ http.status = 500
    /\ net_calls = 2
    /\ \E i \in 1..Len(result.sources) : Unreadable(result.sources[i])

-----------------------------------------------------------------------------
(* C17 *)

\* the number of "n. [title](uri)" lines of a Markdown rendering: what lies
\* between the header and the footer, seven tokens a line
LineCount(text) == IF Len(text) = 0 THEN 0 ELSE (Len(text) - 2) \div 7

\* the (title, uri) pairs the rendering links, in the order of its lines
LinkedPairs(text) ==
    [n \in 1..LineCount(text) |-> [title |-> text[7 * n - 2], uri |-> text[7 * n]]]

\* C17: for every raw source list on which both renderings return, the
\* (title, uri) pairs linked by format_citations_cli, its lines numbered
\* 1, 2, 3, ... in that order, are the entries format_citations_list returns,
\* and format_citations_cli returns the empty string exactly when
\* format_citations_list returns the empty list.
C17_SameDedupLogic ==
    (ListReturned /\ CliReturned) =>
        /\ LinkedPairs(fmt_cli.text) = fmt_list.citations
        /\ \A n \in 1..LineCount(fmt_cli.text) : fmt_cli.text[7 * n - 4] = ToString(n)
        /\ fmt_cli.text = << >> <=> fmt_list.citations = << >>

C17_Witness ==
    /\ ListReturned
    /\ CliReturned
    /\ Len(fmt_sources) = 3
    /\ Len(fmt_list.citations) = 2
    /\ LinkedPairs(fmt_cli.text) = fmt_list.citations
    /\ fmt_list.citations[1].title = "Untitled Source"

-----------------------------------------------------------------------------
(* C18 *)

\* the attribution is an object that at most lacks members: web is missing or
\* an object, which may lack uri, title or both
OnlyLacks(attribution) == attribution.obj /\ attribution.web \in {"absent", "object"}

\* the answer is a candidate with a readable text part and an attribution
\* list whose attributions at most lack members
AnswerWithLackingAttributions ==
    /\ Len(history) > 0
    /\ LastKind = "OK"
    /\ last_body.candidates = "one"
    /\ last_body.extra
    /\ last_body.content # "empty_parts"
    /\ last_body.grounding = "attributions"
    /\ \A i \in 1..Len(last_body.attributions) : OnlyLacks(last_body.attributions[i])

\* C18: when the attributions of an answer at most lack the web member, or
\* the uri or the title of it, call_gemini_api returns the list as it is and
\* format_citations_list does not raise (api_ask answers 200): attributions
\* without web or without uri give no entry, and one with a uri and no title
\* gives an entry titled "Untitled Source".
C18_MissingFieldsDegrade ==
    AnswerWithLackingAttributions =>
        /\ CallReturned
        /\ result.sources = last_body.attributions
        /\ pc = "responded" =>
              /\ http.status = 200
              /\ Len(http.citations) = Cardinality(FirstSeen(result.sources))
              /\ \A i \in 1..Len(result.sources) :
                    UriAt(result.sources, i) = Absent =>
                        \A n \in 1..Len(http.citations) :
                            http.citations[n].uri # UriAt(result.sources, i)
              /\ \A n \in 1..Len(http.citations) :
                    LET a == result.sources[NthFirstSeen(result.sources, n)] IN
                    /\ http.citations[n].uri = a.uri
                    /\ http.citations[n].title =
                          IF a.title = Absent THEN "Untitled Source" ELSE a.title

C18_Witness ==
    /\ AnswerWithLackingAttributions
    /\ pc = "responded"
    /\ http.status = 200
    /\ http.citations = <<[title |-> "Untitled Source", uri |-> "https://a.com"]>>

-----------------------------------------------------------------------------
(* C19 *)

\* the j-th sleep directly follows the j-th attempt, which is not the final
\* one of the budget, and another attempt follows it
SleepBetweenAttempts(j) ==
    /\ sleeps[j].after = j - 1
    /\ j <= Len(history)
    /\ j < MAX_RETRIES
    /\ Len(history) > j \/ pc = "attempt"

\* C19: at every return of call_gemini_api the number of sleeps is the number
\* of network attempts minus one; each sleep directly follows a transport
\* failure on a non-final attempt and is followed by another attempt.
C19_SleepsOnlyAfterTransportFailure ==
    /\ CallReturned => Len(sleeps) = net_calls - 1
    /\ \A j \in 1..Len(sleeps) :
          /\ SleepBetweenAttempts(j)
          /\ history[j] \in TransportKinds

\* C19 (amended): at every return of call_gemini_api the number of sleeps is
\* the number of network attempts minus one; each sleep directly follows, on
\* a non-final attempt, a failure the retry clause catches (a transport
\* failure or, with requests 2.27 or later, a body that is not JSON), and is
\* followed by another attempt; no sleep follows the final failed attempt, a
\* successful attempt, an empty-result response or a critical error.
C19_SleepsOnlyAfterRetriedFailure ==
    /\ CallReturned => Len(sleeps) = net_calls - 1
    /\ \A j \in 1..Len(sleeps) :
          /\ SleepBetweenAttempts(j)
          /\ Retried(j)
    /\ CallReturned => NoSleepAfterLast

C19_Witness ==
    /\ CallReturned
    /\ Len(sleeps) = 2
    /\ net_calls = 3
    /\ history[1] = "JSONDecodeError"
    /\ history[2] \in TransportKinds
    /\ LastKind = "OK"

-----------------------------------------------------------------------------
(* call_gemini_api under every attempt budget from 1 to MaxRetries *)

InitRetries ==
    /\ requests_version \in RequestsVersions
    /\ max_retries \in 1..MaxRetries
    /\ WebIdle
    /\ CliIdle
    /\ FmtIdle

\* a request with the query "a"
AskA == ApiAskBegin([json |-> "object", query |-> "string", text |-> <<"a">>])

NextRetries ==
    \/ AskA
    \/ \E outcome \in Outcomes : Attempt(outcome)
    \/ ApiAskEnd
    \/ Serve

SpecRetries == InitRetries /\ [][NextRetries]_vars

-----------------------------------------------------------------------------
(* C20 *)

IsExhaustedText(text) ==
    /\ Len(text) = 4
    /\ text[1] = "Error: Failed to connect to the AI system after "
    /\ text[2] = ToString(max_retries)
    /\ text[3] = " attempts. Request Exception: "

IsCriticalText(text) ==
    /\ Len(text) = 2
    /\ text[1] = "Critical Error: An unexpected issue prevented processing. Exception: "

\* C20: for every MAX_RETRIES from 1 up, call_gemini_api never returns
\* "Error: Request failed mysteriously."; the text it returns is the
\* provider's text or the text-not-found placeholder, the no-candidates
\* sentinel, the exhaustion sentinel or the critical-error sentinel, and each
\* of the three error sentinels comes with an empty source list.
C20_FallbackUnreachable ==
    /\ result.text # <<"Error: Request failed mysteriously.">>
    /\ CallReturned =>
          \/ result.text \in {<<ProviderText>>, <<"Error: Text content not found.">>}
          \/ /\ result.text = <<"Error: API response contained no candidates.">>
             /\ result.sources = << >>
          \/ /\ IsExhaustedText(result.text)
             /\ net_calls = max_retries
             /\ result.sources = << >>
          \/ /\ IsCriticalText(result.text)
             /\ result.sources = << >>

C20_Witness ==
    /\ pc = "returned"
    /\ max_retries = 1
    /\ net_calls = 1
    /\ LastKind \in TransportKinds
    /\ IsExhaustedText(result.text)

====
